---- MODULE Spec2Model ----
(***************************************************************************)
(* Window management and message routing of youli-electron-modules.        *)
(*                                                                         *)
(* The model follows the main-process window module (class Window,         *)
(* browserWindowAssembly, load) and the application lifecycle module       *)
(* (appBeforeOn, appOn).  A BrowserWindow is a record in the sequence      *)
(* wins, which is BrowserWindow.getAllWindows() in creation order.         *)
(* Every action is one handler, run to completion on the single event      *)
(* loop; ev records what the handler that ran last was given and what it   *)
(* did (messages sent, focus() calls, result).                             *)
(***************************************************************************)
EXTENDS Integers, Sequences, FiniteSets

VARIABLES
  wins,             \* BrowserWindow.getAllWindows(): live windows, creation order
  nextId,           \* id the next BrowserWindow gets (ids are never reused)
  focused,          \* id of the window holding input focus, Null if none
  loadUrl,          \* Window.loadUrl
  appState,         \* "Starting" | "Running" | "Terminating"
  hasLock,          \* result of app.requestSingleInstanceLock
  isFocusMainWin,   \* AppBeforeOptions.isFocusMainWin
  defaultCustomize, \* windowInstance.defaultCustomize: <<>> absent, <<c>> supplied
  platform,         \* process.platform
  isPackaged,       \* app.isPackaged
  workArea,         \* screen.getPrimaryDisplay().workAreaSize
  loads,            \* loads[id]: how the content load started by create() for window id stands
  ev                \* the handler that ran last: its request and its effects

vars == <<wins, nextId, focused, loadUrl, appState, hasLock, isFocusMainWin,
          defaultCustomize, platform, isPackaged, workArea, loads, ev>>

----------------------------------------------------------------------------
(* Bounds of the model *)

\* ids handed out over one run (windows created, live or closed)
MaxId == 3
\* anchor coordinates range over -MaxCoord..MaxCoord in the geometry specification
MaxCoord == 2
\* window sizes range over 0..MaxSide in the geometry specification (0: not given)
MaxSide == 3

----------------------------------------------------------------------------
(* Values *)

\* null / undefined where a window or a window id is expected
Null == 0
\* undefined: a number (an id, customize.parentId) that is not given
Undefined == -1
\* width and height of a BrowserWindow created without them
DefaultWidth == 800
DefaultHeight == 600

\* Window.loadUrl as constructed, Window.viewRoute
DefaultLoadUrl == "renderer/index.html"
viewRoute == "/Webview"
\* process.argv of this process
ProcessArgv == "argv:self"

\* a Customize object; "" and 0 stand for a field that is not set
Customize(url, route, isOneWindow, isMainWin, parentId, argv, headNative) ==
  [id |-> Undefined, url |-> url, route |-> route, isOneWindow |-> isOneWindow,
   isMainWin |-> isMainWin, parentId |-> parentId, argv |-> argv,
   headNative |-> headNative, currentWidth |-> 0, currentHeight |-> 0,
   currentMaximized |-> FALSE]

\* webPreferences of a caller who gives none
NoPreferences == [k \in {} |-> TRUE]

\* BrowserWindowConstructorOptions; width/height 0 and hasXY FALSE: not given
BwOptions(width, height, hasXY, x, y) ==
  [width |-> width, height |-> height, minWidth |-> 0, minHeight |-> 0,
   hasXY |-> hasXY, x |-> x, y |-> y, webPreferences |-> NoPreferences]

\* Object.assign(target, source): the properties of source over those of target
ObjectAssign(target, source) ==
  [k \in DOMAIN target \cup DOMAIN source |->
     IF k \in DOMAIN source THEN source[k] ELSE target[k]]

\* the webPreferences both modules start from (preload and webviewTag, which
\* are not booleans of the application, are left out)
defaultWebPreferences ==
  [contextIsolation |-> TRUE, nodeIntegration |-> FALSE,
   devTools |-> ~isPackaged, webSecurity |-> FALSE]

\* bwOptions = {} (the default parameter value)
NoOptions == BwOptions(0, 0, FALSE, 0, 0)

\* a || b on numbers: b when a is 0 (or not given)
Or(a, b) == IF a # 0 THEN a ELSE b

\* (n / 2) | 0 for an integer numerator n: the quotient truncated toward zero
HalfBitOr0(n) == IF n >= 0 THEN n \div 2 ELSE -((-n) \div 2)

\* what a handler leaves in ev when it does nothing observable
EvNone ==
  [op |-> "none", id |-> Undefined, sender |-> Null, type |-> "", argv |-> "",
   channel |-> "", value |-> "", acceptIds |-> <<>>, isback |-> FALSE,
   size |-> <<>>, sends |-> <<>>, focusCalls |-> <<>>, result |-> <<>>,
   created |-> Null, threw |-> FALSE, listeners |-> 0, resized |-> 0,
   center |-> FALSE, request |-> <<>>, logged |-> FALSE, unhandled |-> FALSE]

----------------------------------------------------------------------------
(* Window registry *)

Ids(ws) == {ws[i].id : i \in 1..Len(ws)}

RECURSIVE fromId(_, _, _)
\* BrowserWindow.fromId over a window list: the position of the window, or Null
fromId(ws, id, i) ==
  IF i > Len(ws) THEN Null
  ELSE IF ws[i].id = id THEN i
  ELSE fromId(ws, id, i + 1)

\* BrowserWindow.fromId(id) in the window list ws
getIn(ws, id) == fromId(ws, id, 1)

\* a faulty get: an id that is no live window falls back to the oldest window
getOrOldest(id) ==
  IF getIn(wins, id) # Null THEN getIn(wins, id)
  ELSE IF Len(wins) > 0 THEN 1 ELSE Null

\* Window.get: the position in wins of the live window id, or Null
get(id) == getIn(wins, id)

\* Window.getAll
getAll == wins

\* Array.prototype.reverse
Reverse(s) == [i \in 1..Len(s) |-> s[Len(s) + 1 - i]]

RECURSIVE getMainLoop(_, _, _)
\* the for loop of getMain over the reversed list; win is the window so far
getMainLoop(all, index, win) ==
  IF index > Len(all) THEN win
  ELSE LET item == all[index]
           w1 == IF index = 1 THEN item.id ELSE win
       IN IF item.customize.isMainWin THEN item.id
          ELSE getMainLoop(all, index + 1, w1)

\* a faulty getMain: scans oldest first
getMainOldestFirst == getMainLoop(getAll, 1, Null)

\* Window.getMain: the id of the main window, or Null
getMain == getMainLoop(Reverse(getAll), 1, Null)

----------------------------------------------------------------------------
(* BrowserWindow *)

\* win.getBounds(): a maximized window fills the primary work area
getBounds(w) ==
  IF w.maximized
  THEN [x |-> 0, y |-> 0, width |-> workArea.width, height |-> workArea.height]
  ELSE [x |-> w.x, y |-> w.y, width |-> w.width, height |-> w.height]

\* win.getPosition()
getPosition(w) == <<getBounds(w).x, getBounds(w).y>>

\* new BrowserWindow(bwOpt): size and position not given fall back to the
\* platform's defaults (default size, centred on the primary work area)
NewBrowserWindow(id, bwOpt, customize, closeParent, url) ==
  LET width == Or(bwOpt.width, DefaultWidth)
      height == Or(bwOpt.height, DefaultHeight)
  IN [id |-> id, customize |-> customize,
      x |-> IF bwOpt.hasXY THEN bwOpt.x ELSE (workArea.width - width) \div 2,
      y |-> IF bwOpt.hasXY THEN bwOpt.y ELSE (workArea.height - height) \div 2,
      width |-> width, height |-> height,
      minWidth |-> bwOpt.minWidth, minHeight |-> bwOpt.minHeight,
      maxWidth |-> 0, maxHeight |-> 0,
      resizable |-> TRUE, maximized |-> FALSE, minimized |-> FALSE,
      visible |-> bwOpt.show, parent |-> bwOpt.parent, closeOnce |-> closeParent,
      webPreferences |-> bwOpt.webPreferences,
      closedOnce |-> Undefined,
      backgroundColor |-> "", alwaysOnTop |-> FALSE, level |-> "", url |-> url]

\* browserWindowAssembly: the finalized options, the customize object as it
\* leaves the function, isParentId and parenWin (a position in wins, or Null)
browserWindowAssembly(customize, bwOptions) ==
  LET headNative == customize.headNative
      isParentId == customize.parentId # Undefined
      parenWin == IF isParentId THEN get(customize.parentId) ELSE Null
      opt0 == [bwOptions EXCEPT
                 !.minWidth = Or(bwOptions.minWidth, bwOptions.width),
                 !.minHeight = Or(bwOptions.minHeight, bwOptions.height)]
      bwOpt0 == [width |-> opt0.width, height |-> opt0.height,
                 minWidth |-> opt0.minWidth, minHeight |-> opt0.minHeight,
                 hasXY |-> opt0.hasXY, x |-> opt0.x, y |-> opt0.y,
                 webPreferences |-> ObjectAssign(defaultWebPreferences,
                                                 opt0.webPreferences),
                 show |-> headNative, frame |-> headNative, parent |-> Null]
  IN IF parenWin = Null
     THEN [bwOpt |-> bwOpt0, customize |-> customize,
           isParentId |-> isParentId, parenWin |-> Null]
     ELSE
       LET parent == wins[parenWin]
           currentWH == getBounds(parent)
           cust1 == [customize EXCEPT
                       !.currentWidth = currentWH.width,
                       !.currentHeight = currentWH.height,
                       !.currentMaximized = parent.maximized]
           currentPosition == getPosition(parent)
           xy == IF cust1.currentMaximized
                 THEN <<HalfBitOr0(workArea.width - Or(bwOpt0.width, 0)),
                        HalfBitOr0(workArea.height - Or(bwOpt0.height, 0))>>
                 ELSE <<HalfBitOr0(2 * currentPosition[1]
                          + (currentWH.width - Or(bwOpt0.width, cust1.currentWidth))),
                        HalfBitOr0(2 * currentPosition[2]
                          + (currentWH.height - Or(bwOpt0.height, cust1.currentHeight)))>>
       IN [bwOpt |-> [bwOpt0 EXCEPT !.parent = parent.id, !.hasXY = TRUE,
                                    !.x = xy[1], !.y = xy[2]],
           customize |-> cust1, isParentId |-> isParentId, parenWin |-> parenWin]

RECURSIVE oneWindowLoop(_, _)
\* the isOneWindow loop of create: the position of the first live window whose
\* route is the requested route, or Null
oneWindowLoop(customize, i) ==
  IF i > Len(wins) THEN Null
  ELSE IF customize.route # "" /\ customize.route = wins[i].customize.route THEN i
  ELSE oneWindowLoop(customize, i + 1)

\* a faulty create: no live window is ever taken for the requested one
oneWindowMiss(customize) == Null

\* the window create() focuses instead of creating one, or Null
oneWindowHit(customize) ==
  IF customize.isOneWindow /\ customize.url = ""
  THEN oneWindowLoop(customize, 1)
  ELSE Null

\* a window constructed but left out of the window list
registerNothing(ws, win) == ws

\* new BrowserWindow(bwOpt) puts the window in BrowserWindow.getAllWindows()
\* as it is constructed
registerWindow(ws, win) == Append(ws, win)

\* Window.create up to the await of load: the registry, focus and loadUrl as
\* the call returns its promise, the load it started, the focus() calls made,
\* the id created (Null: none) and the value the promise resolves to once the
\* load has settled (<<>>: undefined, resolved at once)
create(customize, bwOptions) ==
  LET hit == oneWindowHit(customize)
  IN IF hit # Null
     THEN [wins |-> wins, focused |-> wins[hit].id, loadUrl |-> loadUrl,
           nextId |-> nextId, loads |-> loads, focusCalls |-> <<wins[hit].id>>,
           created |-> Null, result |-> <<>>]
     ELSE
       LET a == browserWindowAssembly(customize, bwOptions)
           id == nextId
           cust2 == [a.customize EXCEPT
                       !.argv = IF a.customize.argv = "" THEN ProcessArgv
                                ELSE a.customize.argv]
           newLoadUrl == IF cust2.url # "" /\ cust2.headNative THEN cust2.url
                         ELSE loadUrl
           cust3 == IF cust2.url # "" /\ ~cust2.headNative
                    THEN [cust2 EXCEPT !.route = viewRoute]
                    ELSE cust2
           closeParent == IF a.isParentId
                          THEN (IF a.parenWin = Null THEN Null
                                ELSE wins[a.parenWin].id)
                          ELSE Undefined
           win == NewBrowserWindow(id, a.bwOpt, cust3, closeParent, newLoadUrl)
       IN [wins |-> registerWindow(wins, win),
           focused |-> IF win.visible THEN id ELSE focused,
           loadUrl |-> newLoadUrl, nextId |-> nextId + 1,
           loads |-> Append(loads, "pending"),
           focusCalls |-> <<>>, created |-> id, result |-> <<id>>]

\* whether create() has room to make a window in this model
CanCreate(customize, cap) ==
  oneWindowHit(customize) # Null \/ (nextId <= MaxId /\ Len(wins) < cap)

----------------------------------------------------------------------------
(* Closing windows *)

\* the list without the window at position i
RemoveAt(ws, i) == [j \in 1..(Len(ws) - 1) |-> IF j < i THEN ws[j] ELSE ws[j + 1]]

\* win.close() or the user closing window id: the 'close' event runs the
\* one-shot listener of create (parenWin?.focus()); the page may then keep the
\* window open (beforeunload), otherwise the window is destroyed and 'closed'
\* runs the one-shot listener of browserWindowInit.  W is
\* [wins, focused, focusCalls, threw].
closeWindow(W, id, cancelled) ==
  LET i == getIn(W.wins, id)
      w == W.wins[i]
      armed == w.closeOnce # Undefined
      parentLive == armed /\ w.closeOnce # Null /\ getIn(W.wins, w.closeOnce) # Null
      parentGone == armed /\ w.closeOnce # Null /\ getIn(W.wins, w.closeOnce) = Null
      ws1 == [W.wins EXCEPT ![i].closeOnce = Undefined]
      foc1 == IF parentLive THEN w.closeOnce ELSE W.focused
      calls1 == IF parentLive THEN Append(W.focusCalls, w.closeOnce) ELSE W.focusCalls
      closedLive == ~cancelled /\ w.closedOnce # Undefined
                      /\ getIn(W.wins, w.closedOnce) # Null
      closedGone == ~cancelled /\ w.closedOnce # Undefined
                      /\ getIn(W.wins, w.closedOnce) = Null
      foc2 == IF closedLive THEN w.closedOnce
              ELSE IF ~cancelled /\ foc1 = id THEN Null ELSE foc1
      calls2 == IF closedLive THEN Append(calls1, w.closedOnce) ELSE calls1
  IN IF i = Null THEN W
     ELSE [wins |-> IF cancelled THEN ws1 ELSE RemoveAt(ws1, i),
           focused |-> foc2,
           focusCalls |-> calls2,
           threw |-> W.threw \/ parentGone \/ closedGone]

\* app 'window-all-closed': quit unless on darwin
AfterClose(ws, before) ==
  IF Len(ws) = 0 /\ Len(before) > 0 /\ platform # "darwin" THEN "Terminating"
  ELSE appState

----------------------------------------------------------------------------
(* Start of the process *)

\* the primary display's work area used outside the geometry specification
WorkArea0 == [width |-> 1920, height |-> 1080]

\* the state after the window module is constructed and before appBeforeOn
InitWith(platforms, workAreas, defaults) ==
  /\ wins = <<>>
  /\ nextId = 1
  /\ focused = Null
  /\ loadUrl = DefaultLoadUrl
  /\ appState = "Starting"
  /\ hasLock = FALSE
  /\ isFocusMainWin = FALSE
  /\ defaultCustomize \in defaults
  /\ platform \in platforms
  /\ isPackaged = TRUE
  /\ workArea \in workAreas
  /\ loads = <<>>
  /\ ev = EvNone

\* a faulty appBeforeOn: the process is not quit when the lock is not acquired
appBeforeOnNoQuit(options, lock) ==
  /\ appState = "Starting"
  /\ hasLock' = lock
  /\ isFocusMainWin' = options.isFocusMainWin
  /\ appState' = "Running"
  /\ ev' = [EvNone EXCEPT !.op = "app-before-on"]
  /\ UNCHANGED <<wins, nextId, focused, loadUrl, defaultCustomize, platform, isPackaged, workArea, loads>>

\* appBeforeOn(options): without the lock the process quits, with it the
\* 'second-instance' handler is installed
appBeforeOn(options, lock) ==
  /\ appState = "Starting"
  /\ hasLock' = lock
  /\ isFocusMainWin' = options.isFocusMainWin
  /\ appState' = IF lock THEN "Running" ELSE "Terminating"
  /\ ev' = [EvNone EXCEPT !.op = "app-before-on"]
  /\ UNCHANGED <<wins, nextId, focused, loadUrl, defaultCustomize, platform, isPackaged, workArea, loads>>

----------------------------------------------------------------------------
(* Creating, closing and updating windows *)

\* ipcMain.handle("window-new"): create(args.customize, args.opt) up to the
\* await of load; the reply to the invoke follows when the load settles
WindowNew(customize, opt, cap) ==
  /\ appState = "Running"
  /\ CanCreate(customize, cap)
  /\ \E r \in {create(customize, opt)} :
        /\ wins' = r.wins
        /\ nextId' = r.nextId
        /\ focused' = r.focused
        /\ loadUrl' = r.loadUrl
        /\ loads' = r.loads
        /\ ev' = [EvNone EXCEPT !.op = "window-new", !.created = r.created,
                                !.request = <<customize, opt>>,
                                !.size = <<opt.width, opt.height>>,
                                !.focusCalls = r.focusCalls]
  /\ UNCHANGED <<appState, hasLock, isFocusMainWin, defaultCustomize, platform, isPackaged, workArea>>

\* window id is asked to close (win.close() or the user); cancelled: the page
\* keeps the window open
Close(id, cancelled) ==
  /\ appState = "Running"
  /\ get(id) # Null
  /\ \E r \in {closeWindow([wins |-> wins, focused |-> focused,
                           focusCalls |-> <<>>, threw |-> FALSE], id, cancelled)} :
        /\ wins' = r.wins
        /\ focused' = r.focused
        /\ appState' = AfterClose(r.wins, wins)
        /\ ev' = [EvNone EXCEPT !.op = "close", !.id = id,
                                !.focusCalls = r.focusCalls, !.threw = r.threw]
  /\ UNCHANGED <<nextId, loadUrl, hasLock, isFocusMainWin, defaultCustomize,
                 platform, isPackaged, workArea, loads>>

\* a faulty window-update: the isMainWin flag of the old config is kept
WindowUpdateKeepsMain(args) ==
  /\ appState = "Running"
  /\ \E win \in {IF args.id # 0 /\ args.id # Undefined THEN get(args.id) ELSE Null} :
        wins' = IF win = Null THEN wins
                ELSE [wins EXCEPT ![win].customize =
                        [args EXCEPT !.isMainWin = wins[win].customize.isMainWin]]
  /\ ev' = [EvNone EXCEPT !.op = "window-update", !.id = args.id,
                          !.request = <<args>>]
  /\ UNCHANGED <<nextId, focused, loadUrl, appState, hasLock, isFocusMainWin,
                 defaultCustomize, platform, isPackaged, workArea, loads>>

\* ipcMain.on("window-update"): args is {id, ...customize}
WindowUpdate(args) ==
  /\ appState = "Running"
  /\ \E win \in {IF args.id # 0 /\ args.id # Undefined THEN get(args.id) ELSE Null} :
        wins' = IF win = Null THEN wins
                ELSE [wins EXCEPT ![win].customize = args]
  /\ ev' = [EvNone EXCEPT !.op = "window-update", !.id = args.id,
                          !.request = <<args>>]
  /\ UNCHANGED <<nextId, focused, loadUrl, appState, hasLock, isFocusMainWin,
                 defaultCustomize, platform, isPackaged, workArea, loads>>

----------------------------------------------------------------------------
(* Window operations by name *)

\* WindowFuncOpt
FuncTypes == {"close", "hide", "show", "minimize", "maximize", "restore", "reload"}

\* win[type]() on the window id of W = [wins, focused, focusCalls, threw];
\* cancels: the windows whose page keeps them open when asked to close
winFunc(W, id, type, cancels) ==
  LET i == getIn(W.wins, id)
  IN IF i = Null THEN W
     ELSE CASE type = "close" -> closeWindow(W, id, id \in cancels)
            [] type = "hide" ->
                 [W EXCEPT !.wins[i].visible = FALSE,
                           !.focused = IF W.focused = id THEN Null ELSE W.focused]
            [] type = "show" ->
                 [W EXCEPT !.wins[i].visible = TRUE, !.focused = id]
            [] type = "minimize" ->
                 [W EXCEPT !.wins[i].minimized = TRUE,
                           !.focused = IF W.focused = id THEN Null ELSE W.focused]
            [] type = "maximize" ->
                 [W EXCEPT !.wins[i].maximized = TRUE, !.wins[i].visible = TRUE]
            [] type = "unmaximize" -> [W EXCEPT !.wins[i].maximized = FALSE]
            [] type = "restore" -> [W EXCEPT !.wins[i].minimized = FALSE]
            [] type = "focus" ->
                 [W EXCEPT !.focused = id, !.focusCalls = Append(W.focusCalls, id)]
            [] OTHER -> W

RECURSIVE funcAll(_, _, _, _, _)
\* for (const i of this.getAll()) i[type]() over the list all, from position k
funcAll(W, all, k, type, cancels) ==
  IF k > Len(all) THEN W
  ELSE funcAll(winFunc(W, all[k].id, type, cancels), all, k + 1, type, cancels)

\* Window.func(type, id): one window, or every window when id is not given;
\* an id that is no live window is logged and nothing is done
func(W, type, id, cancels) ==
  IF id # Undefined
  THEN (IF get(id) = Null THEN W ELSE winFunc(W, wins[get(id)].id, type, cancels))
  ELSE funcAll(W, W.wins, 1, type, cancels)

\* the windows and focus a handler starts from
World == [wins |-> wins, focused |-> focused, focusCalls |-> <<>>, threw |-> FALSE]

\* ipcMain.on("window-func"): func(args.type, args.id)
WindowFunc(type, id, cancels) ==
  /\ appState = "Running"
  /\ \E r \in {func(World, type, id, cancels)} :
        /\ wins' = r.wins
        /\ focused' = r.focused
        /\ appState' = AfterClose(r.wins, wins)
        /\ ev' = [EvNone EXCEPT !.op = "window-func", !.type = type, !.id = id,
                                !.focusCalls = r.focusCalls, !.threw = r.threw]
  /\ UNCHANGED <<nextId, loadUrl, hasLock, isFocusMainWin, defaultCustomize,
                 platform, isPackaged, workArea, loads>>

----------------------------------------------------------------------------
(* A second launch of the application *)

\* windowInstance.defaultBrowserWindowOptions
defaultBrowserWindowOptions == NoOptions

\* { ...windowInstance.defaultCustomize, argv }
secondInstanceCustomize(argv) ==
  IF defaultCustomize = <<>>
  THEN Customize("", "", FALSE, FALSE, Undefined, argv, FALSE)
  ELSE [defaultCustomize[1] EXCEPT !.argv = argv]

\* the focus-main branch: restore, show and focus getMain()
focusMain(W, main) ==
  IF main = Null THEN W
  ELSE LET w == W.wins[getIn(W.wins, main)]
           W1 == IF w.minimized THEN winFunc(W, main, "restore", {}) ELSE W
       IN winFunc(winFunc(W1, main, "show", {}), main, "focus", {})

\* a faulty second-instance handler: the new window is made from the default configuration alone
SecondInstanceNoArgv(argv, cap) ==
  /\ appState = "Running" /\ hasLock
  /\ ~isFocusMainWin
  /\ CanCreate(secondInstanceCustomize(""), cap)
  /\ \E r \in {create(secondInstanceCustomize(""), defaultBrowserWindowOptions)} :
        /\ wins' = r.wins
        /\ nextId' = r.nextId
        /\ focused' = r.focused
        /\ loadUrl' = r.loadUrl
        /\ loads' = r.loads
        /\ ev' = [EvNone EXCEPT !.op = "second-instance", !.argv = argv,
                                !.created = r.created, !.focusCalls = r.focusCalls]
  /\ UNCHANGED <<appState, hasLock, isFocusMainWin, defaultCustomize, platform, isPackaged, workArea>>

\* a faulty second-instance handler: isFocusMainWin is not looked at
SecondInstanceAlwaysSpawn(argv, cap) ==
  /\ appState = "Running" /\ hasLock
  /\ CanCreate(secondInstanceCustomize(argv), cap)
  /\ \E r \in {create(secondInstanceCustomize(argv), defaultBrowserWindowOptions)} :
        /\ wins' = r.wins
        /\ nextId' = r.nextId
        /\ focused' = r.focused
        /\ loadUrl' = r.loadUrl
        /\ loads' = r.loads
        /\ ev' = [EvNone EXCEPT !.op = "second-instance", !.argv = argv,
                                !.created = r.created, !.focusCalls = r.focusCalls]
  /\ UNCHANGED <<appState, hasLock, isFocusMainWin, defaultCustomize, platform, isPackaged, workArea>>

\* app.on('second-instance') of appBeforeOn, installed when the lock is held
SecondInstance(argv, cap) ==
  /\ appState = "Running" /\ hasLock
  /\ IF isFocusMainWin
     THEN \E r \in {focusMain(World, getMain)} :
            /\ wins' = r.wins
            /\ focused' = r.focused
            /\ ev' = [EvNone EXCEPT !.op = "second-instance", !.argv = argv,
                                    !.id = getMain, !.focusCalls = r.focusCalls]
            /\ UNCHANGED <<nextId, loadUrl, loads>>
     ELSE /\ CanCreate(secondInstanceCustomize(argv), cap)
          /\ \E r \in {create(secondInstanceCustomize(argv), defaultBrowserWindowOptions)} :
               /\ wins' = r.wins
               /\ nextId' = r.nextId
               /\ focused' = r.focused
               /\ loadUrl' = r.loadUrl
               /\ loads' = r.loads
               /\ ev' = [EvNone EXCEPT !.op = "second-instance", !.argv = argv,
                                       !.created = r.created,
                                       !.focusCalls = r.focusCalls]
  /\ UNCHANGED <<appState, hasLock, isFocusMainWin, defaultCustomize, platform, isPackaged, workArea>>

----------------------------------------------------------------------------
(* The application is activated (darwin) *)

\* a faulty activate handler: the number of live windows is not looked at
ActivateAlways(cap) ==
  /\ appState = "Running" /\ platform = "darwin"
  /\ defaultCustomize # <<>>
  /\ CanCreate(defaultCustomize[1], cap)
  /\ \E r \in {create(defaultCustomize[1], defaultBrowserWindowOptions)} :
        /\ wins' = r.wins
        /\ nextId' = r.nextId
        /\ focused' = r.focused
        /\ loadUrl' = r.loadUrl
        /\ loads' = r.loads
        /\ ev' = [EvNone EXCEPT !.op = "activate", !.created = r.created,
                                !.focusCalls = r.focusCalls]
  /\ UNCHANGED <<appState, hasLock, isFocusMainWin, defaultCustomize, platform, isPackaged, workArea>>

\* app.on('activate') of appOn: with no live window, create one from the
\* default configuration; create throws on a configuration that is absent
Activate(cap) ==
  /\ appState = "Running" /\ platform = "darwin"
  /\ IF Len(getAll) = 0 /\ defaultCustomize # <<>>
     THEN /\ CanCreate(defaultCustomize[1], cap)
          /\ \E r \in {create(defaultCustomize[1], defaultBrowserWindowOptions)} :
               /\ wins' = r.wins
               /\ nextId' = r.nextId
               /\ focused' = r.focused
               /\ loadUrl' = r.loadUrl
               /\ loads' = r.loads
               /\ ev' = [EvNone EXCEPT !.op = "activate", !.created = r.created,
                                       !.focusCalls = r.focusCalls]
     ELSE /\ ev' = [EvNone EXCEPT !.op = "activate",
                                  !.threw = (Len(getAll) = 0)]
          /\ UNCHANGED <<wins, nextId, focused, loadUrl, loads>>
  /\ UNCHANGED <<appState, hasLock, isFocusMainWin, defaultCustomize, platform, isPackaged, workArea>>

----------------------------------------------------------------------------
(* The older window module: browserWindowInit and its create *)

\* customize.hasOwnProperty(name)
hasOwnProperty(customize, name) == name \in DOMAIN customize

\* browserWindowInit up to new BrowserWindow(opt): the finalized options, the
\* customize object, isParentId and parenWin (a position in wins, or Null).
\* Without a parent the window is placed on getMain(), when there is one; a
\* width or height that is not given makes that coordinate NaN | 0 = 0.
browserWindowInit(customize, args) ==
  LET isLocal == customize.route = ""
      isParentId == hasOwnProperty(customize, "customize")
      parenWin == IF isParentId THEN get(customize.parentId) ELSE Null
      opt == [width |-> args.width, height |-> args.height,
              minWidth |-> Or(args.minWidth, args.width),
              minHeight |-> Or(args.minHeight, args.height),
              hasXY |-> args.hasXY, x |-> args.x, y |-> args.y,
              webPreferences |-> ObjectAssign(args.webPreferences,
                                              defaultWebPreferences),
              show |-> isLocal, frame |-> isLocal, parent |-> Null]
  IN IF isParentId /\ parenWin # Null
     THEN
       LET parent == wins[parenWin]
           currentWH == getBounds(parent)
           cust1 == [customize EXCEPT
                       !.currentWidth = currentWH.width,
                       !.currentHeight = currentWH.height,
                       !.currentMaximized = parent.maximized]
           currentPosition == getPosition(parent)
           xy == IF cust1.currentMaximized
                 THEN <<HalfBitOr0(workArea.width - Or(opt.width, 0)),
                        HalfBitOr0(workArea.height - Or(opt.height, 0))>>
                 ELSE <<HalfBitOr0(2 * currentPosition[1]
                          + (currentWH.width - Or(opt.width, cust1.currentWidth))),
                        HalfBitOr0(2 * currentPosition[2]
                          + (currentWH.height - Or(opt.height, cust1.currentHeight)))>>
       IN [bwOpt |-> [opt EXCEPT !.parent = parent.id, !.hasXY = TRUE,
                                 !.x = xy[1], !.y = xy[2]],
           customize |-> cust1, isParentId |-> isParentId, parenWin |-> parenWin]
     ELSE
       LET main == getMain
       IN IF main = Null
          THEN [bwOpt |-> opt, customize |-> customize,
                isParentId |-> isParentId, parenWin |-> parenWin]
          ELSE
            LET m == wins[get(main)]
                mainPosition == getPosition(m)
                mainBounds == getBounds(m)
                x == IF opt.width = 0 THEN 0
                     ELSE HalfBitOr0(2 * mainPosition[1] + (mainBounds.width - opt.width))
                y == IF opt.height = 0 THEN 0
                     ELSE HalfBitOr0(2 * mainPosition[2] + (mainBounds.height - opt.height))
            IN [bwOpt |-> [opt EXCEPT !.hasXY = TRUE, !.x = x, !.y = y],
                customize |-> customize,
                isParentId |-> isParentId, parenWin |-> parenWin]

RECURSIVE oneWindowLoopInit(_, _)
\* the isOneWindow loop of the older create: the first live window with the
\* requested route or the requested url, or Null
oneWindowLoopInit(customize, i) ==
  IF i > Len(wins) THEN Null
  ELSE IF \/ customize.route # "" /\ customize.route = wins[i].customize.route
          \/ customize.url # "" /\ customize.url = wins[i].customize.url
       THEN i
  ELSE oneWindowLoopInit(customize, i + 1)

\* the older Window.create (packaged application): browserWindowInit, the
\* default url, load; it returns nothing
createInit(customize, opt) ==
  LET hit == IF customize.isOneWindow THEN oneWindowLoopInit(customize, 1) ELSE Null
  IN IF hit # Null
     THEN [wins |-> wins, focused |-> wins[hit].id, loadUrl |-> loadUrl,
           nextId |-> nextId, loads |-> loads, focusCalls |-> <<wins[hit].id>>,
           created |-> Null, result |-> <<>>]
     ELSE
       LET a == browserWindowInit(customize, opt)
           id == nextId
           cust2 == [a.customize EXCEPT
                       !.argv = IF a.customize.argv = "" THEN ProcessArgv
                                ELSE a.customize.argv,
                       !.id = id,
                       !.url = IF a.customize.url = "" THEN DefaultLoadUrl
                               ELSE a.customize.url]
           win == [NewBrowserWindow(id, a.bwOpt, cust2, Undefined, cust2.url)
                     EXCEPT !.closedOnce = IF a.isParentId /\ a.parenWin # Null
                                           THEN wins[a.parenWin].id
                                           ELSE Undefined]
       IN [wins |-> registerWindow(wins, win),
           focused |-> IF win.visible THEN id ELSE focused,
           loadUrl |-> loadUrl, nextId |-> nextId + 1,
           loads |-> Append(loads, "started"),
           focusCalls |-> <<>>, created |-> id, result |-> <<>>]

\* ipcMain.on('window-new') of the older module: create(args.customize, args.opt)
WindowNewInit(customize, opt, cap) ==
  /\ appState = "Running"
  /\ nextId <= MaxId /\ Len(wins) < cap
  /\ \E r \in {createInit(customize, opt)} :
        /\ wins' = r.wins
        /\ nextId' = r.nextId
        /\ focused' = r.focused
        /\ loadUrl' = r.loadUrl
        /\ loads' = r.loads
        /\ ev' = [EvNone EXCEPT !.op = "window-new", !.type = "browserWindowInit",
                                !.created = r.created,
                                !.request = <<customize, opt>>,
                                !.size = <<opt.width, opt.height>>,
                                !.focusCalls = r.focusCalls]
  /\ UNCHANGED <<appState, hasLock, isFocusMainWin, defaultCustomize, platform, isPackaged, workArea>>

----------------------------------------------------------------------------
(* Content that opens a new window *)

\* the parentId windowOpenHandler is given: load passes none for the window's
\* own webContents and win.id for a webview attached to the window
openerParentId(id, fromWebview) == IF fromWebview THEN id ELSE Undefined

\* the handler setWindowOpenHandler installs, run when the content of window
\* id (or of a webview attached to it) asks to open url: create({url,
\* parentId}) is called and the open itself is denied
WindowOpen(id, fromWebview, url, cap) ==
  /\ appState = "Running"
  /\ get(id) # Null
  /\ \E customize \in {Customize(url, "", FALSE, FALSE,
                                 openerParentId(id, fromWebview), "", FALSE)} :
       /\ CanCreate(customize, cap)
       /\ \E r \in {create(customize, NoOptions)} :
            /\ wins' = r.wins
            /\ nextId' = r.nextId
            /\ focused' = r.focused
            /\ loadUrl' = r.loadUrl
            /\ loads' = r.loads
            /\ ev' = [EvNone EXCEPT
                        !.op = "window-open", !.id = id, !.value = url,
                        !.type = IF fromWebview THEN "webview" ELSE "content",
                        !.request = <<customize>>, !.created = r.created,
                        !.focusCalls = r.focusCalls, !.result = <<"deny">>]
  /\ UNCHANGED <<appState, hasLock, isFocusMainWin, defaultCustomize, platform, isPackaged, workArea>>

----------------------------------------------------------------------------
(* Messages between windows *)

\* one win.webContents.send(key, value) to window id
Delivery(id, key, value) == [to |-> id, channel |-> key, value |-> value]

RECURSIVE sendAll(_, _, _, _, _)
\* for (const i of this.getAll()) i.webContents.send(key, value), skipping the
\* window whose id is except; S is the deliveries so far
sendAll(S, k, key, value, except) ==
  IF k > Len(wins) THEN S
  ELSE sendAll(IF wins[k].id # except
               THEN Append(S, Delivery(wins[k].id, key, value)) ELSE S,
               k + 1, key, value, except)

\* a faulty send: the id is not looked at
sendIgnoringId(S, key, value, id) == sendAll(S, 1, key, value, Null)

\* Window.send(key, value, id): to window id if it is live, to every window
\* when no id is given
send(S, key, value, id) ==
  IF id # Undefined
  THEN (IF get(id) # Null THEN Append(S, Delivery(id, key, value)) ELSE S)
  ELSE sendAll(S, 1, key, value, Null)

RECURSIVE sendEach(_, _, _, _, _)
\* for (const i of args.acceptIds) this.send(channel, args.value, i)
sendEach(S, acceptIds, k, key, value) ==
  IF k > Len(acceptIds) THEN S
  ELSE sendEach(send(S, key, value, acceptIds[k]), acceptIds, k + 1, key, value)

\* `window-message-${args.channel}-back`
backChannel(channel) == "window-message-" \o channel \o "-back"

\* ipcMain.on("window-message-send"), sent by the content of window sender;
\* args is {channel, id, value, acceptIds, isback}
WindowMessageSend(sender, args) ==
  /\ appState = "Running"
  /\ get(sender) # Null
  /\ \E S \in {IF Len(args.acceptIds) > 0
               THEN sendEach(<<>>, args.acceptIds, 1, backChannel(args.channel), args.value)
               ELSE IF args.isback
               THEN send(<<>>, backChannel(args.channel), args.value, Undefined)
               ELSE sendAll(<<>>, 1, backChannel(args.channel), args.value, args.id)} :
        ev' = [EvNone EXCEPT !.op = "window-message-send", !.sender = sender,
                             !.id = args.id, !.channel = args.channel,
                             !.value = args.value, !.acceptIds = args.acceptIds,
                             !.isback = args.isback, !.sends = S]
  /\ UNCHANGED <<wins, nextId, focused, loadUrl, appState, hasLock, isFocusMainWin,
                 defaultCustomize, platform, isPackaged, workArea, loads>>

----------------------------------------------------------------------------
(* Events of a window forwarded to its content *)

\* the events load() listens to: 'did-finish-load' of the webContents, and
\* 'maximize', 'unmaximize', 'blur', 'focus' of the window
LifecycleKinds == {"did-finish-load", "maximize", "unmaximize", "blur", "focus"}

\* the channel the listener of an event sends on
lifecycleChannel(kind) ==
  CASE kind = "did-finish-load" -> "window-load"
    [] kind \in {"maximize", "unmaximize"} -> "window-maximize-status"
    [] kind \in {"blur", "focus"} -> "window-blur-focus"

\* what the listener sends: the window's config with its id for a finished
\* load, the name of the event for the other four
lifecyclePayload(id, kind) ==
  IF kind = "did-finish-load"
  THEN [wins[get(id)].customize EXCEPT !.id = id]
  ELSE kind

\* a faulty listener: the event is sent to every window
forwardToAll(id, kind) ==
  sendAll(<<>>, 1, lifecycleChannel(kind), lifecyclePayload(id, kind), Null)

\* the listener load() registers on window id: win.webContents.send(channel, payload)
forwardEvent(id, kind) ==
  <<Delivery(id, lifecycleChannel(kind), lifecyclePayload(id, kind))>>

\* window id emits 'maximize', 'unmaximize', 'blur' or 'focus' (the user or the
\* window manager acted on it) and its listener forwards the event
WindowEvent(id, kind) ==
  /\ appState = "Running"
  /\ get(id) # Null
  /\ kind \in LifecycleKinds \ {"did-finish-load"}
  /\ \E w \in {get(id)} :
        /\ kind = "maximize" => ~wins[w].maximized
        /\ kind = "unmaximize" => wins[w].maximized
        /\ kind = "blur" => focused = id
        /\ kind = "focus" => focused # id /\ wins[w].visible
        /\ wins' = IF kind \in {"maximize", "unmaximize"}
                   THEN [wins EXCEPT ![w].maximized = (kind = "maximize")]
                   ELSE wins
        /\ focused' = CASE kind = "blur" -> Null
                        [] kind = "focus" -> id
                        [] OTHER -> focused
  /\ ev' = [EvNone EXCEPT !.op = "window-event", !.id = id, !.type = kind,
                          !.sends = forwardEvent(id, kind)]
  /\ UNCHANGED <<nextId, loadUrl, appState, hasLock, isFocusMainWin,
                 defaultCustomize, platform, isPackaged, workArea, loads>>

----------------------------------------------------------------------------
(* Content loading *)

\* what the create() promise of a window destroyed while loading can come to:
\* the id, or the error of reading win.id of a destroyed window
AbandonedOutcomes == {"id", "error"}

\* a faulty load: the function ends without returning win.id
LoadSettledNoResult(id, ok, outcome) ==
  /\ appState = "Running"
  /\ id \in 1..Len(loads) /\ loads[id] = "pending"
  /\ outcome = "id"
  /\ ok = (get(id) # Null)
  /\ loads' = [loads EXCEPT ![id] = IF ok THEN "finished" ELSE "abandoned"]
  /\ ev' = [EvNone EXCEPT !.op = "load-settled", !.id = id]
  /\ UNCHANGED <<wins, nextId, focused, loadUrl, appState, hasLock, isFocusMainWin,
                 defaultCustomize, platform, isPackaged, workArea>>

\* the load that create() awaits settles for window id and create() returns
\* win.id to its caller (the reply of a window-new invoke).  ok: the page
\* loaded and 'did-finish-load' sent window-load with the config; otherwise
\* the failure is caught and logged and the window stays open.  For a window
\* destroyed while loading the promise ends as outcome says.
LoadSettled(id, ok, outcome) ==
  /\ appState = "Running"
  /\ id \in 1..Len(loads) /\ loads[id] = "pending"
  /\ IF get(id) # Null
     THEN /\ outcome = "id"
          /\ loads' = [loads EXCEPT ![id] = IF ok THEN "finished" ELSE "failed"]
          /\ ev' = [EvNone EXCEPT
                      !.op = "load-settled", !.id = id, !.result = <<id>>,
                      !.logged = ~ok,
                      !.sends = IF ok THEN forwardEvent(id, "did-finish-load")
                                ELSE <<>>]
     ELSE /\ ~ok
          /\ loads' = [loads EXCEPT ![id] = "abandoned"]
          /\ ev' = [EvNone EXCEPT
                      !.op = "load-settled", !.id = id,
                      !.result = IF outcome = "id" THEN <<id>> ELSE <<>>,
                      !.threw = (outcome = "error")]
  /\ UNCHANGED <<wins, nextId, focused, loadUrl, appState, hasLock, isFocusMainWin,
                 defaultCustomize, platform, isPackaged, workArea>>

\* the load started by the older load() settles for window id.  Its promise
\* was dropped by load(): create() returned long ago, and a rejection has no
\* handler, so nothing of the module catches it or passes it to a log.
LoadSettledInit(id, ok) ==
  /\ appState = "Running"
  /\ id \in 1..Len(loads) /\ loads[id] = "started"
  /\ IF get(id) # Null
     THEN /\ loads' = [loads EXCEPT ![id] = IF ok THEN "finished" ELSE "failed"]
          /\ ev' = [EvNone EXCEPT
                      !.op = "load-settled", !.type = "browserWindowInit",
                      !.id = id, !.unhandled = ~ok,
                      !.sends = IF ok THEN forwardEvent(id, "did-finish-load")
                                ELSE <<>>]
     ELSE /\ ~ok
          /\ loads' = [loads EXCEPT ![id] = "abandoned"]
          /\ ev' = [EvNone EXCEPT
                      !.op = "load-settled", !.type = "browserWindowInit",
                      !.id = id]
  /\ UNCHANGED <<wins, nextId, focused, loadUrl, appState, hasLock, isFocusMainWin,
                 defaultCustomize, platform, isPackaged, workArea>>

----------------------------------------------------------------------------
(* Router operations on one window *)

\* WindowStatusOpt
StatusTypes == {"isMaximized", "isMinimized", "isFullScreen", "isAlwaysOnTop",
                "isVisible", "isFocused", "isModal"}

\* win[type]() for a status query
winStatus(w, type) ==
  CASE type = "isMaximized" -> w.maximized
    [] type = "isMinimized" -> w.minimized
    [] type = "isAlwaysOnTop" -> w.alwaysOnTop
    [] type = "isVisible" -> w.visible
    [] type = "isFocused" -> focused = w.id
    [] OTHER -> FALSE

\* Window.getStatus(type, id), ipcMain.handle("window-status")
GetStatus(type, id) ==
  /\ appState = "Running"
  /\ \E win \in {get(id)} :
        ev' = [EvNone EXCEPT !.op = "window-status", !.type = type, !.id = id,
                 !.result = IF win = Null THEN <<>> ELSE <<winStatus(wins[win], type)>>]
  /\ UNCHANGED <<wins, nextId, focused, loadUrl, appState, hasLock, isFocusMainWin,
                 defaultCustomize, platform, isPackaged, workArea, loads>>

\* what a router operation on one window leaves unchanged
RouterFrame ==
  UNCHANGED <<nextId, focused, loadUrl, appState, hasLock, isFocusMainWin,
              defaultCustomize, platform, isPackaged, workArea, loads>>

\* Window.setMinSize(args), ipcMain.on("window-min-size-set")
SetMinSize(args) ==
  /\ appState = "Running"
  /\ \E win \in {get(args.id)} :
        wins' = IF win = Null THEN wins
                ELSE [wins EXCEPT ![win].minWidth = args.size[1],
                                  ![win].minHeight = args.size[2]]
  /\ ev' = [EvNone EXCEPT !.op = "window-min-size-set", !.id = args.id,
                          !.size = args.size]
  /\ RouterFrame

\* Window.setMaxSize(args), ipcMain.on("window-max-size-set")
SetMaxSize(args) ==
  /\ appState = "Running"
  /\ \E win \in {get(args.id)} :
      \E workAreaSize \in {IF args.size[1] # 0
                           THEN [width |-> args.size[1], height |-> args.size[2]]
                           ELSE workArea} :
        wins' = IF win = Null THEN wins
                ELSE [wins EXCEPT ![win].maxWidth = workAreaSize.width,
                                  ![win].maxHeight = workAreaSize.height]
  /\ ev' = [EvNone EXCEPT !.op = "window-max-size-set", !.id = args.id,
                          !.size = args.size]
  /\ RouterFrame

\* setMaxSize of the older module: win.setMaximumSize(args.size[0], args.size[1])
SetMaxSizeInit(args) ==
  /\ appState = "Running"
  /\ \E win \in {get(args.id)} :
        wins' = IF win = Null THEN wins
                ELSE [wins EXCEPT ![win].maxWidth = args.size[1],
                                  ![win].maxHeight = args.size[2]]
  /\ ev' = [EvNone EXCEPT !.op = "window-max-size-set", !.type = "browserWindowInit",
                          !.id = args.id, !.size = args.size]
  /\ RouterFrame

\* a faulty setSize: no early return when the size is the current size
setSizeAlways(w, args) ==
  LET winBounds == getBounds(w)
      winPosition == getPosition(w)
      x == IF ~args.center
           THEN HalfBitOr0(2 * winPosition[1] + (winBounds.width - args.size[1]))
           ELSE (workArea.width - args.size[1]) \div 2
      y == IF ~args.center
           THEN HalfBitOr0(2 * winPosition[2] + (winBounds.height - args.size[2]))
           ELSE (workArea.height - args.size[2]) \div 2
  IN [win |-> [w EXCEPT !.resizable = args.resizable,
                        !.minWidth = args.size[1], !.minHeight = args.size[2],
                        !.width = args.size[1], !.height = args.size[2],
                        !.x = x, !.y = y, !.maximized = FALSE],
      listeners |-> 1, resized |-> 1]

\* Window.setSize on the live window w: the window after the call and after
\* the 'resize' event its setBounds raises, the one-shot 'resize' listeners
\* registered and the 'resize' events raised.  Without the center flag the
\* position keeps the centre where it was; with it the listener centres the
\* window on the primary work area.
setSize(w, args) ==
  LET winBounds == getBounds(w)
      winPosition == getPosition(w)
      x == IF ~args.center
           THEN HalfBitOr0(2 * winPosition[1] + (winBounds.width - args.size[1]))
           ELSE (workArea.width - args.size[1]) \div 2
      y == IF ~args.center
           THEN HalfBitOr0(2 * winPosition[2] + (winBounds.height - args.size[2]))
           ELSE (workArea.height - args.size[2]) \div 2
  IN IF args.size[1] = winBounds.width /\ args.size[2] = winBounds.height
     THEN [win |-> w, listeners |-> 0, resized |-> 0]
     ELSE [win |-> [w EXCEPT !.resizable = args.resizable,
                             !.minWidth = args.size[1], !.minHeight = args.size[2],
                             !.width = args.size[1], !.height = args.size[2],
                             !.x = x, !.y = y, !.maximized = FALSE],
           listeners |-> 1, resized |-> 1]

\* Window.setSize(args), ipcMain.on("window-size-set")
SetSize(args) ==
  /\ appState = "Running"
  /\ \E win \in {get(args.id)} :
        IF win = Null
        THEN /\ wins' = wins
             /\ ev' = [EvNone EXCEPT !.op = "window-size-set", !.id = args.id,
                                     !.size = args.size, !.center = args.center]
        ELSE \E r \in {setSize(wins[win], args)} :
               /\ wins' = [wins EXCEPT ![win] = r.win]
               /\ ev' = [EvNone EXCEPT !.op = "window-size-set", !.id = args.id,
                                       !.size = args.size,
                                       !.center = args.center,
                                       !.listeners = r.listeners,
                                       !.resized = r.resized]
  /\ RouterFrame

\* Window.setBackgroundColor(args), ipcMain.on("window-bg-color-set")
SetBackgroundColor(args) ==
  /\ appState = "Running"
  /\ \E win \in {get(args.id)} :
        wins' = IF win = Null THEN wins
                ELSE [wins EXCEPT ![win].backgroundColor = args.color]
  /\ ev' = [EvNone EXCEPT !.op = "window-bg-color-set", !.id = args.id]
  /\ RouterFrame

\* Window.setAlwaysOnTop(args), ipcMain.on("window-always-top-set")
SetAlwaysOnTop(args) ==
  /\ appState = "Running"
  /\ \E win \in {get(args.id)} :
        wins' = IF win = Null THEN wins
                ELSE [wins EXCEPT ![win].alwaysOnTop = args.is,
                                  ![win].level = IF args.type = "" THEN "normal"
                                                 ELSE args.type]
  /\ ev' = [EvNone EXCEPT !.op = "window-always-top-set", !.id = args.id]
  /\ RouterFrame

\* ipcMain.on("window-max-min-size"): toggle maximize / unmaximize
WindowMaxMinSize(id) ==
  /\ appState = "Running"
  /\ \E win \in {IF id # Undefined THEN get(id) ELSE Null} :
        wins' = IF win = Null THEN wins
                ELSE IF wins[win].maximized
                THEN winFunc(World, wins[win].id, "unmaximize", {}).wins
                ELSE winFunc(World, wins[win].id, "maximize", {}).wins
  /\ ev' = [EvNone EXCEPT !.op = "window-max-min-size", !.id = id]
  /\ RouterFrame

----------------------------------------------------------------------------
(* The registry specification: creations, closes and config updates *)

\* target ids of requests: every id a window can have, one that no window has, and 0
TargetIds == 0..(MaxId + 1)

\* the same, and the id left out of the request
OptionalIds == TargetIds \cup {Undefined}

RegistryCustomizes ==
  { Customize("", "", FALSE, m, Undefined, "", FALSE) : m \in BOOLEAN }
    \cup { Customize("", "/a", TRUE, FALSE, Undefined, "", FALSE) }

UpdateArgs(customizes) ==
  { [c EXCEPT !.id = id] : c \in customizes, id \in TargetIds }

AppOptions == { [isFocusMainWin |-> b] : b \in BOOLEAN }

\* the options of a process that focuses its main window on a second launch
FocusOptions == { [isFocusMainWin |-> TRUE] }

Init == InitWith({"win32", "darwin"}, {WorkArea0}, {<<>>})

Next ==
  \/ \E o \in FocusOptions, lock \in BOOLEAN : appBeforeOn(o, lock)
  \/ \E c \in RegistryCustomizes : WindowNew(c, NoOptions, MaxId)
  \/ \E id \in TargetIds, cancelled \in BOOLEAN : Close(id, cancelled)
  \/ \E a \in UpdateArgs(RegistryCustomizes) : WindowUpdate(a)

Spec == Init /\ [][Next]_vars

----------------------------------------------------------------------------
(* The spawn-new specification: a second launch opens a window *)

\* the launch arguments of second instances
LaunchArgvs == {"argv:second", "argv:third"}

\* the application's home window: one window per route
HomeCustomize == Customize("", "/home", TRUE, TRUE, Undefined, "", FALSE)

\* a window with no route of its own
PlainCustomize == Customize("", "", FALSE, FALSE, Undefined, "", FALSE)

\* the same, flagged as the main window
MainCustomize == Customize("", "", FALSE, TRUE, Undefined, "", FALSE)

SpawnOptions == { [isFocusMainWin |-> FALSE] }

InitSpawn == InitWith({"win32"}, {WorkArea0}, {<<>>, <<HomeCustomize>>, <<PlainCustomize>>})

NextSpawn ==
  \/ \E o \in SpawnOptions, lock \in BOOLEAN : appBeforeOn(o, lock)
  \/ \E c \in {HomeCustomize, PlainCustomize} : WindowNew(c, NoOptions, MaxId)
  \/ \E id \in TargetIds, cancelled \in BOOLEAN : Close(id, cancelled)
  \/ \E argv \in LaunchArgvs : SecondInstance(argv, MaxId)

SpecSpawn == InitSpawn /\ [][NextSpawn]_vars

\* the step is a second-instance event handled in spawn-new mode
SpawnStep == ev'.op = "second-instance" /\ hasLock /\ ~isFocusMainWin

\* C2 as stated: in spawn-new mode every second-instance event adds exactly
\* one live window, whose config carries the argv of that event.
C2_EverySecondInstanceSpawns ==
  [][SpawnStep =>
       /\ Len(wins') = Len(wins) + 1
       /\ wins'[Len(wins')].customize.argv = ev'.argv]_vars

\* positions of the live windows whose route is the default configuration's,
\* when that configuration asks for one window per route and names no url
DefaultRouteLive ==
  IF defaultCustomize # <<>>
     /\ defaultCustomize[1].isOneWindow
     /\ defaultCustomize[1].url = ""
     /\ defaultCustomize[1].route # ""
  THEN {i \in 1..Len(wins) : wins[i].customize.route = defaultCustomize[1].route}
  ELSE {}

\* the smallest member of a non-empty set of numbers
Min(S) == CHOOSE m \in S : \A n \in S : m <= n

\* C2 amended: in spawn-new mode a second-instance event adds exactly one
\* live window whose config carries the event's argv, unless the default
\* configuration has isOneWindow, no url and the route of a live window: then
\* no window is created and the oldest live window of that route is focused.
C2_SpawnsUnlessOneWindow ==
  [][SpawnStep =>
       IF DefaultRouteLive = {}
       THEN /\ Len(wins') = Len(wins) + 1
            /\ \A i \in 1..Len(wins) : wins'[i] = wins[i]
            /\ wins'[Len(wins')].customize.argv = ev'.argv
            /\ wins'[Len(wins')].id = ev'.created
       ELSE /\ wins' = wins
            /\ ev'.created = Null
            /\ ev'.focusCalls = <<wins[Min(DefaultRouteLive)].id>>]_vars

\* a second-instance event has just added a third window carrying its argv,
\* next to windows that carry the process's own argv
C2_Witness ==
  /\ ev.op = "second-instance" /\ hasLock /\ ~isFocusMainWin
  /\ Len(wins) = 3
  /\ ev.created = wins[3].id
  /\ wins[3].customize.argv = ev.argv
  /\ wins[1].customize.argv = ProcessArgv

----------------------------------------------------------------------------
(* The focus-main specification: a second launch focuses the main window *)

InitFocusMain == InitWith({"win32"}, {WorkArea0}, {<<>>})

NextFocusMain ==
  \/ \E o \in FocusOptions, lock \in BOOLEAN : appBeforeOn(o, lock)
  \/ \E c \in {PlainCustomize, MainCustomize} : WindowNew(c, NoOptions, MaxId)
  \/ \E id \in TargetIds : Close(id, FALSE)
  \/ \E id \in (1..MaxId) \cup {Undefined} : WindowFunc("minimize", id, {})
  \/ SecondInstance("argv:second", MaxId)

SpecFocusMain == InitFocusMain /\ [][NextFocusMain]_vars

\* the step is a second-instance event handled in focus-main mode
FocusMainStep == ev'.op = "second-instance" /\ hasLock /\ isFocusMainWin

\* C3: in focus-main mode no second-instance event changes the set of live
\* windows; it restores, shows and focuses the window getMain() returns and
\* touches no other window, and does nothing when getMain() is none.
C3_FocusMainNeverSpawns ==
  [][FocusMainStep =>
       /\ Len(wins') = Len(wins)
       /\ nextId' = nextId
       /\ IF getMain = Null
          THEN wins' = wins /\ focused' = focused /\ ev'.focusCalls = <<>>
          ELSE /\ \A i \in 1..Len(wins) :
                    wins'[i] = IF wins[i].id = getMain
                               THEN [wins[i] EXCEPT !.minimized = FALSE,
                                                    !.visible = TRUE]
                               ELSE wins[i]
               /\ focused' = getMain
               /\ ev'.focusCalls = <<getMain>>]_vars

\* a second-instance event has just restored and focused the main window, an
\* older flagged window, while a newer window stays minimized
C3_Witness ==
  /\ ev.op = "second-instance" /\ hasLock /\ isFocusMainWin
  /\ Len(wins) = 3
  /\ getMain = wins[2].id
  /\ focused = wins[2].id
  /\ wins[2].visible /\ ~wins[2].minimized
  /\ wins[3].minimized

----------------------------------------------------------------------------
(* The messaging specification *)

\* acceptIds lists of one id and of two ids (a repeated id included)
AcceptLists ==
  {<<a>> : a \in TargetIds} \cup {<<a, b>> : a \in TargetIds, b \in 1..MaxId}

MessageArg(id, acceptIds, isback) ==
  [channel |-> "chat", id |-> id, value |-> "hello", acceptIds |-> acceptIds,
   isback |-> isback]

\* requests with a list of targets, and broadcasts naming (or not) a sender id
MessageArgs ==
  { MessageArg(Undefined, l, FALSE) : l \in AcceptLists }
    \cup { MessageArg(id, <<>>, b) : id \in (1..MaxId) \cup {Undefined}, b \in BOOLEAN }

InitMsg == InitWith({"darwin"}, {WorkArea0}, {<<>>})

NextMsg ==
  \/ \E o \in FocusOptions, lock \in BOOLEAN : appBeforeOn(o, lock)
  \/ WindowNew(PlainCustomize, NoOptions, MaxId)
  \/ \E id \in TargetIds : Close(id, FALSE)
  \/ \E sender \in 1..MaxId, a \in MessageArgs : WindowMessageSend(sender, a)

SpecMsg == InitMsg /\ [][NextMsg]_vars

\* the elements of a sequence
Range(s) == {s[k] : k \in 1..Len(s)}

\* the windows the last handler delivered to
Recipients == {ev.sends[k].to : k \in 1..Len(ev.sends)}

\* how many deliveries the last handler made to window id
Deliveries(id) == Cardinality({k \in 1..Len(ev.sends) : ev.sends[k].to = id})

\* C4: a window-message-send request with a non-empty acceptIds list delivers
\* the value on window-message-<channel>-back to exactly the live windows
\* listed in acceptIds, whether or not the sender is among them; ids that are
\* not live are skipped.
C4_AcceptIdsOnly ==
  (ev.op = "window-message-send" /\ ev.acceptIds # <<>>) =>
     /\ Recipients = Ids(wins) \cap Range(ev.acceptIds)
     /\ ~ev.threw
     /\ \A k \in 1..Len(ev.sends) :
           /\ ev.sends[k].value = ev.value
           /\ ev.channel = "chat" => ev.sends[k].channel = "window-message-chat-back"

\* three windows are live; window 1 asked for delivery to window 2 and to an
\* id that is not live: only window 2 received it
C4_Witness ==
  /\ ev.op = "window-message-send"
  /\ Len(wins) = 3
  /\ ev.sender = 1
  /\ ev.acceptIds = <<MaxId + 1, 2>>
  /\ Recipients = {2}

\* C5 as stated: without acceptIds the request reaches every live window when
\* isback is set, and every live window but the one that sent it otherwise;
\* no window receives it twice.
C5_BroadcastExceptSender ==
  (ev.op = "window-message-send" /\ ev.acceptIds = <<>>) =>
     /\ Recipients = IF ev.isback THEN Ids(wins) ELSE Ids(wins) \ {ev.sender}
     /\ \A id \in Ids(wins) : Deliveries(id) <= 1

----------------------------------------------------------------------------
(* The parent specification: child windows and their close *)

\* a window opened with parentId p
ChildCustomize(p) == Customize("", "", FALSE, FALSE, p, "", FALSE)

InitParent == InitWith({"win32"}, {WorkArea0}, {<<>>})

NextParent ==
  \/ \E o \in FocusOptions, lock \in BOOLEAN : appBeforeOn(o, lock)
  \/ \E c \in {PlainCustomize} \cup {ChildCustomize(p) : p \in 1..MaxId} :
       WindowNew(c, NoOptions, MaxId)
  \/ \E id \in TargetIds, cancelled \in BOOLEAN : Close(id, cancelled)

SpecParent == InitParent /\ [][NextParent]_vars

\* C6 as stated: when a window created with a parentId that resolved to a
\* live parent is destroyed, the parent (if still live) gets focus() exactly
\* once and no other window does; a close that is only requested, and leaves
\* the window open, focuses nothing.
C6_ParentFocusedOnDestroy ==
  [][ev'.op = "close" =>
       LET w == wins[get(ev'.id)]
           destroyed == ev'.id \notin Ids(wins')
       IN /\ (destroyed /\ w.parent # Null /\ w.parent \in Ids(wins))
               => ev'.focusCalls = <<w.parent>>
          /\ ~destroyed => ev'.focusCalls = <<>>]_vars

----------------------------------------------------------------------------
(* The router specification: operations that name a window id *)

\* ids the router requests name: the oldest window and an id no window has
RouterTargets == {1, MaxId + 1}

RouterSizes == {<<DefaultWidth, DefaultHeight>>, <<400, 300>>}

SizeArgs ==
  { [id |-> id, size |-> sz, resizable |-> r, center |-> c] :
      id \in RouterTargets, sz \in RouterSizes, r \in {FALSE}, c \in BOOLEAN }

MinMaxArgs(sizes) == { [id |-> id, size |-> sz] : id \in RouterTargets, sz \in sizes }

InitRouter == InitWith({"win32"}, {WorkArea0}, {<<>>})

NextRouter ==
  \/ \E o \in FocusOptions, lock \in BOOLEAN : appBeforeOn(o, lock)
  \/ WindowNew(PlainCustomize, NoOptions, MaxId)
  \/ \E id \in TargetIds : Close(id, FALSE)
  \/ \E t \in {"show", "close"}, id \in RouterTargets : WindowFunc(t, id, {})
  \/ \E t \in {"isVisible", "isMaximized"}, id \in RouterTargets : GetStatus(t, id)
  \/ \E a \in SizeArgs : SetSize(a)
  \/ \E a \in MinMaxArgs({<<400, 300>>}) : SetMinSize(a)
  \/ \E a \in MinMaxArgs({<<0, 0>>}) : SetMaxSize(a)
  \/ \E id \in RouterTargets : SetBackgroundColor([id |-> id, color |-> "#fff"])
  \/ \E id \in RouterTargets : SetAlwaysOnTop([id |-> id, is |-> TRUE, type |-> ""])
  \/ \E id \in RouterTargets \cup {0} : WindowUpdate([MainCustomize EXCEPT !.id = id])
  \/ \E id \in RouterTargets : WindowMaxMinSize(id)

SpecRouter == InitRouter /\ [][NextRouter]_vars

\* the requests that name a target window id
RouterOps ==
  {"window-func", "window-status", "window-size-set", "window-min-size-set",
   "window-max-size-set", "window-bg-color-set", "window-always-top-set",
   "window-update", "window-max-min-size"}

\* the step handles a router request whose id is given and is no live window
UnresolvedStep ==
  ev'.op \in RouterOps /\ ev'.id # Undefined /\ ev'.id \notin Ids(wins)

\* C7: a router operation whose target id is no live window raises no error,
\* changes no window's state or config, leaves the set of live windows as it
\* is, and yields no result.
C7_UnresolvedIdIsNoOp ==
  [][UnresolvedStep =>
       /\ wins' = wins
       /\ focused' = focused /\ nextId' = nextId /\ appState' = appState
       /\ ~ev'.threw
       /\ ev'.result = <<>>
       /\ ev'.sends = <<>> /\ ev'.focusCalls = <<>>]_vars

\* a status query named an id that is no live window, with two windows live,
\* and got no result
C7_Witness ==
  /\ ev.op = "window-status"
  /\ Len(wins) = 2
  /\ ev.id = MaxId + 1
  /\ ev.result = <<>>

\* the step handles setSize for a live window with the size it already has
SameSizeStep ==
  /\ ev'.op = "window-size-set"
  /\ get(ev'.id) # Null
  /\ ev'.size = <<getBounds(wins[get(ev'.id)]).width,
                  getBounds(wins[get(ev'.id)]).height>>

\* C10: setSize with the target window's current width and height changes
\* nothing of any window (position, size, minimum size, resizable flag) and
\* registers no resize listener and raises no resize event.
C10_SameSizeIsNoOp ==
  [][SameSizeStep =>
       /\ wins' = wins
       /\ ev'.listeners = 0
       /\ ev'.resized = 0]_vars

\* setSize was called with the size the window was resized to before: the
\* window keeps that size and nothing was registered
C10_Witness ==
  /\ ev.op = "window-size-set"
  /\ ev.size = <<400, 300>>
  /\ get(ev.id) # Null
  /\ wins[get(ev.id)].width = 400 /\ wins[get(ev.id)].height = 300
  /\ ev.listeners = 0 /\ ev.resized = 0

----------------------------------------------------------------------------
(* The size-limit specification: setMinSize and setMaxSize *)

\* the sizes of the requests: <<0, 0>> is a request that gives no size
LimitSizes == {<<0, 0>>, <<400, 300>>}

LimitArgs == { [id |-> id, size |-> sz] : id \in TargetIds, sz \in LimitSizes }

InitLimit == InitWith({"win32"}, {WorkArea0}, {<<>>})

NextLimit ==
  \/ \E o \in FocusOptions, lock \in BOOLEAN : appBeforeOn(o, lock)
  \/ WindowNew(PlainCustomize, NoOptions, MaxId)
  \/ \E id \in 1..MaxId : Close(id, FALSE)
  \/ \E a \in LimitArgs : SetMinSize(a)
  \/ \E a \in LimitArgs : SetMaxSize(a)
  \/ \E a \in LimitArgs : SetMaxSizeInit(a)

SpecLimit == InitLimit /\ [][NextLimit]_vars

\* C22: setMinSize and setMaxSize on a live id give the window the size of the
\* request as its minimum (maximum) size, and the work area size of the
\* primary display when the request gives no size.
C22_LimitsPassThroughOrWorkArea ==
  [][(/\ ev'.op \in {"window-min-size-set", "window-max-size-set"}
      /\ getIn(wins, ev'.id) # Null) =>
       LET w == wins'[getIn(wins', ev'.id)]
           limit == IF ev'.size[1] # 0
                    THEN [width |-> ev'.size[1], height |-> ev'.size[2]]
                    ELSE workArea
       IN IF ev'.op = "window-min-size-set"
          THEN w.minWidth = limit.width /\ w.minHeight = limit.height
          ELSE w.maxWidth = limit.width /\ w.maxHeight = limit.height]_vars

----------------------------------------------------------------------------
(* The preferences specification: webPreferences of new windows *)

\* at most this many windows are open in the preferences specification
MaxPrefsWindows == 2

\* webPreferences a caller supplies: none, one setting set against the
\* default, one set to the default, all three set
CallerPreferences ==
  { NoPreferences,
    [nodeIntegration |-> TRUE],
    [contextIsolation |-> FALSE],
    [devTools |-> TRUE],
    [devTools |-> FALSE],
    [contextIsolation |-> FALSE, nodeIntegration |-> TRUE, devTools |-> FALSE] }

PrefsOptions == { [NoOptions EXCEPT !.webPreferences = p] : p \in CallerPreferences }

\* as InitWith, for an application that is packaged or not
InitPrefs ==
  /\ wins = <<>>
  /\ nextId = 1
  /\ focused = Null
  /\ loadUrl = DefaultLoadUrl
  /\ appState = "Starting"
  /\ hasLock = FALSE
  /\ isFocusMainWin = FALSE
  /\ defaultCustomize = <<>>
  /\ platform = "win32"
  /\ isPackaged \in BOOLEAN
  /\ workArea = WorkArea0
  /\ loads = <<>>
  /\ ev = EvNone

NextPrefs ==
  \/ \E o \in FocusOptions, lock \in BOOLEAN : appBeforeOn(o, lock)
  \/ \E o \in PrefsOptions : WindowNew(PlainCustomize, o, MaxPrefsWindows)
  \/ \E o \in PrefsOptions : WindowNewInit(PlainCustomize, o, MaxPrefsWindows)
  \/ \E id \in 1..MaxId : Close(id, FALSE)

SpecPrefs == InitPrefs /\ [][NextPrefs]_vars

\* C23: a new window has context isolation on, node integration off and
\* developer tools on exactly when the application is not packaged, except
\* for a setting the caller gave in webPreferences, which has the caller's value.
C23_SecureUnlessCallerSays ==
  [][ev'.created # Null =>
       LET w == wins'[getIn(wins', ev'.created)]
           given == ev'.request[2].webPreferences
           InEffect(k, default) == IF k \in DOMAIN given THEN given[k] ELSE default
       IN /\ w.webPreferences["contextIsolation"] = InEffect("contextIsolation", TRUE)
          /\ w.webPreferences["nodeIntegration"] = InEffect("nodeIntegration", FALSE)
          /\ w.webPreferences["devTools"] = InEffect("devTools", ~isPackaged)]_vars

----------------------------------------------------------------------------
(* The locator specification: what a new window loads *)

\* requests without a url, and with a url for a native-headed window and for
\* a webview window
LocatorCustomizes ==
  { PlainCustomize,
    Customize("https://example.org/a", "", FALSE, FALSE, Undefined, "", TRUE),
    Customize("https://example.org/a", "", FALSE, FALSE, Undefined, "", FALSE) }

InitLocator == InitWith({"win32"}, {WorkArea0}, {<<>>})

NextLocator ==
  \/ \E o \in FocusOptions, lock \in BOOLEAN : appBeforeOn(o, lock)
  \/ \E c \in LocatorCustomizes : WindowNew(c, NoOptions, MaxId)
  \/ \E id \in 1..MaxId : Close(id, FALSE)
  \/ \E id \in 1..MaxId, ok \in BOOLEAN : LoadSettled(id, ok, "id")

SpecLocator == InitLocator /\ [][NextLocator]_vars

\* C24: whatever was created before, a window created from a request without
\* a url loads the default locator of the application.
C24_NoUrlLoadsDefault ==
  [][(ev'.created # Null /\ ev'.request[1].url = "") =>
       wins'[getIn(wins', ev'.created)].url = DefaultLoadUrl]_vars

----------------------------------------------------------------------------
(* The one-window specification: requests for one window per route *)

OneWindowRoutes == {"/a", "/b"}

\* requests with isOneWindow, a route and no url; and a request for route /a
\* without isOneWindow
OneWindowCustomizes ==
  { Customize("", r, TRUE, FALSE, Undefined, "", FALSE) : r \in OneWindowRoutes }

OneWindowRequests ==
  OneWindowCustomizes \cup { Customize("", "/a", FALSE, FALSE, Undefined, "", FALSE) }

InitOneWindow == InitWith({"win32"}, {WorkArea0}, {<<>>})

NextOneWindow ==
  \/ \E o \in FocusOptions, lock \in BOOLEAN : appBeforeOn(o, lock)
  \/ \E c \in OneWindowRequests : WindowNew(c, NoOptions, MaxId)
  \/ \E c \in OneWindowRequests : WindowNewInit(c, NoOptions, MaxId)
  \/ \E id \in 1..MaxId, cancelled \in BOOLEAN : Close(id, cancelled)

SpecOneWindow == InitOneWindow /\ [][NextOneWindow]_vars

\* the ids of the live windows of ws whose config has route r
WithRoute(ws, r) == { ws[i].id : i \in { j \in 1..Len(ws) : ws[j].customize.route = r } }

\* C25: a request with isOneWindow, a route and no url, made while a live
\* window has that route, creates nothing and focuses a window of that route;
\* and at no time are two live windows that were created with isOneWindow of
\* the same route.
C25_OneWindowPerRoute ==
  /\ [][(/\ ev'.op = "window-new"
         /\ ev'.request[1] \in OneWindowCustomizes
         /\ WithRoute(wins, ev'.request[1].route) # {}) =>
          /\ ev'.created = Null
          /\ wins' = wins
          /\ Len(ev'.focusCalls) = 1
          /\ ev'.focusCalls[1] \in WithRoute(wins, ev'.request[1].route)
          /\ focused' = ev'.focusCalls[1]]_vars
  /\ [](\A i, j \in 1..Len(wins) :
          (/\ i # j
           /\ wins[i].customize.isOneWindow
           /\ wins[j].customize.isOneWindow) =>
             wins[i].customize.route # wins[j].customize.route)

\* window 1 was destroyed, windows 2 and 3 were created with isOneWindow for
\* the two routes, and a further request for the route of window 3 focused it
C25_Witness ==
  /\ ev.op = "window-new" /\ ev.created = Null
  /\ ev.request[1] \in OneWindowCustomizes
  /\ ev.focusCalls = <<3>>
  /\ Ids(wins) = {2, 3}
  /\ \A i \in 1..Len(wins) : wins[i].customize.isOneWindow
  /\ focused = 3

----------------------------------------------------------------------------
(* The geometry specification: placing a window on its anchor *)

GeomWorkAreas == { [width |-> w, height |-> MaxSide] : w \in (MaxSide - 1)..MaxSide }

\* an anchor window: given position and size
AnchorOptions ==
  { BwOptions(w, 2, TRUE, x, y) :
      w \in 1..MaxSide, x \in (-MaxCoord)..MaxCoord, y \in {-1, 0} }

\* a window placed on its parent: width and height requested, or not given
PlacedOptions ==
  { BwOptions(w, h, FALSE, 0, 0) : w \in 0..(MaxSide + 1), h \in {0, MaxSide} }

InitGeom == InitWith({"win32"}, GeomWorkAreas, {<<>>})

NextGeom ==
  \/ \E o \in FocusOptions, lock \in BOOLEAN : appBeforeOn(o, lock)
  \/ \E o \in AnchorOptions : WindowNew(PlainCustomize, o, 1)
  \/ \E o \in PlacedOptions : WindowNew(ChildCustomize(1), o, 2)
  \/ WindowMaxMinSize(1)

SpecGeom == InitGeom /\ [][NextGeom]_vars

\* the window created last
Newest == wins[Len(wins)]

\* a window of a given size has just been created on a live parent
PlacedOnParent ==
  /\ ev.op = "window-new" /\ ev.created # Null
  /\ Newest.parent # Null
  /\ ev.size[1] # 0 /\ ev.size[2] # 0

\* C8 as stated: on an anchor that is not maximized, at (px,py) with size
\* (pw,ph), a new window of size (cw,ch) is placed at
\* (floor(px+(pw-cw)/2), floor(py+(ph-ch)/2)), negative offsets included.
C8_CenteredOnAnchor ==
  (PlacedOnParent /\ ~Newest.customize.currentMaximized) =>
     LET a == wins[get(Newest.parent)]
     IN /\ Newest.x = (2 * a.x + (a.width - ev.size[1])) \div 2
        /\ Newest.y = (2 * a.y + (a.height - ev.size[2])) \div 2

\* C9 as stated: on a maximized anchor a new window of size (W,H) is placed at
\* (floor((AW-W)/2), floor((AH-H)/2)) of the primary work area (AW,AH), also
\* when W > AW or H > AH.
C9_CenteredOnWorkArea ==
  (PlacedOnParent /\ Newest.customize.currentMaximized) =>
     /\ Newest.x = (workArea.width - ev.size[1]) \div 2
     /\ Newest.y = (workArea.height - ev.size[2]) \div 2

----------------------------------------------------------------------------
(* The resize specification: setSize on a window of any position and size *)

\* setSize requests for the oldest window: growing, shrinking and the same size
ResizeArgs ==
  { [id |-> 1, size |-> <<w, h>>, resizable |-> r, center |-> c] :
      w \in 1..(MaxSide + 1), h \in {2, MaxSide}, r \in BOOLEAN, c \in BOOLEAN }

InitResize == InitWith({"win32"}, GeomWorkAreas, {<<>>})

NextResize ==
  \/ \E o \in FocusOptions, lock \in BOOLEAN : appBeforeOn(o, lock)
  \/ \E o \in AnchorOptions : WindowNew(PlainCustomize, o, 1)
  \/ \E a \in ResizeArgs : SetSize(a)

SpecResize == InitResize /\ [][NextResize]_vars

\* the step handles setSize for a live window with a size it does not have
ResizeStep ==
  /\ ev'.op = "window-size-set"
  /\ get(ev'.id) # Null
  /\ ev'.size # <<getBounds(wins[get(ev'.id)]).width,
                  getBounds(wins[get(ev'.id)]).height>>

\* C11 as stated: setSize with a new size and no center flag puts the window at
\* (floor(x + (width - newWidth)/2), floor(y + (height - newHeight)/2)),
\* growing or shrinking; with the center flag the position is not computed
\* from the old one and the window is centred once, when the resize completes.
C11_ResizeKeepsCentre ==
  [][ResizeStep =>
       LET w == wins[get(ev'.id)]
           w2 == wins'[get(ev'.id)]
       IN /\ w2.width = ev'.size[1] /\ w2.height = ev'.size[2]
          /\ ev'.listeners = 1 /\ ev'.resized = 1
          /\ IF ev'.center
             THEN /\ w2.x = (workArea.width - w2.width) \div 2
                  /\ w2.y = (workArea.height - w2.height) \div 2
             ELSE /\ w2.x = (2 * w.x + (w.width - ev'.size[1])) \div 2
                  /\ w2.y = (2 * w.y + (w.height - ev'.size[2])) \div 2]_vars

----------------------------------------------------------------------------
(* The loading specification: creations, loads that settle, and closes *)

\* a window of route /a, one per route
RouteCustomize == Customize("", "/a", TRUE, FALSE, Undefined, "", FALSE)

InitLoad == InitWith({"win32"}, {WorkArea0}, {<<>>})

NextLoad ==
  \/ \E o \in FocusOptions, lock \in BOOLEAN : appBeforeOn(o, lock)
  \/ \E c \in {PlainCustomize, RouteCustomize} : WindowNew(c, NoOptions, MaxId)
  \/ \E id \in TargetIds, cancelled \in BOOLEAN : Close(id, cancelled)
  \/ \E id \in 1..MaxId, ok \in BOOLEAN, outcome \in AbandonedOutcomes :
       LoadSettled(id, ok, outcome)

SpecLoad == InitLoad /\ [][NextLoad]_vars

\* C12: a window is in the registry as create() returns, while its load is
\* still pending, and get(id) resolves to it in every later state (the load
\* settling or failing, other creations) until a close destroys it.
C12_RegisteredBeforeLoad ==
  [][/\ ev'.created # Null =>
          /\ getIn(wins', ev'.created) # Null
          /\ wins'[getIn(wins', ev'.created)].id = ev'.created
          /\ loads'[ev'.created] = "pending"
     /\ \A id \in Ids(wins) :
          \/ getIn(wins', id) # Null /\ wins'[getIn(wins', id)].id = id
          \/ ev'.op = "close" /\ ev'.id = id]_vars

\* a window was created while the load of an older window had failed and the
\* load of another was pending; all three resolve by id
C12_Witness ==
  /\ ev.op = "window-new" /\ ev.created = 3
  /\ Len(wins) = 3
  /\ loads = <<"failed", "pending", "pending">>
  /\ \A id \in 1..3 : get(id) # Null

----------------------------------------------------------------------------
(* The load-failure specification: loads of both modules that fail *)

InitFailure == InitWith({"win32"}, {WorkArea0}, {<<>>})

NextFailure ==
  \/ \E o \in FocusOptions, lock \in BOOLEAN : appBeforeOn(o, lock)
  \/ WindowNew(PlainCustomize, NoOptions, MaxId)
  \/ WindowNewInit(PlainCustomize, NoOptions, MaxId)
  \/ \E id \in 1..MaxId : Close(id, FALSE)
  \/ \E id \in 1..MaxId, ok \in BOOLEAN, outcome \in AbandonedOutcomes :
       LoadSettled(id, ok, outcome)
  \/ \E id \in 1..MaxId, ok \in BOOLEAN : LoadSettledInit(id, ok)

SpecFailure == InitFailure /\ [][NextFailure]_vars

\* the load of a live window fails in this step
LoadFails ==
  /\ ev'.op = "load-settled"
  /\ ev'.id \in 1..Len(loads')
  /\ loads'[ev'.id] = "failed"

\* C21: when the load of a window fails the failure is caught and logged and
\* nothing is thrown; the window is live and registered as before, no content
\* has loaded, and no later step starts a load of that window again.
C21_LoadFailureContained ==
  [][/\ LoadFails =>
          /\ ev'.logged /\ ~ev'.unhandled /\ ~ev'.threw
          /\ wins' = wins
          /\ getIn(wins', ev'.id) # Null
          /\ ev'.sends = <<>>
     /\ \A id \in 1..Len(loads) :
          loads[id] = "failed" => loads'[id] = "failed"]_vars

----------------------------------------------------------------------------
(* The events specification: windows that load, maximize and change focus *)

InitEvents == InitWith({"win32"}, {WorkArea0}, {<<>>})

NextEvents ==
  \/ \E o \in FocusOptions, lock \in BOOLEAN : appBeforeOn(o, lock)
  \/ WindowNew(PlainCustomize, NoOptions, MaxId)
  \/ \E id \in 1..MaxId : Close(id, FALSE)
  \/ \E id \in 1..MaxId, ok \in BOOLEAN : LoadSettled(id, ok, "id")
  \/ \E id \in TargetIds, kind \in LifecycleKinds : WindowEvent(id, kind)

SpecEvents == InitEvents /\ [][NextEvents]_vars

\* C20 as stated: an event of a window is forwarded as one message to that
\* window's content and to no other, on a channel that none of the other four
\* kinds of event is sent on.
C20_OwnChannelEach ==
  [][(ev'.op = "window-event" \/ (ev'.op = "load-settled" /\ ev'.sends # <<>>)) =>
       LET kind == IF ev'.op = "load-settled" THEN "did-finish-load" ELSE ev'.type
       IN /\ Len(ev'.sends) = 1
          /\ \A d \in Range(ev'.sends) : d.to = ev'.id
          /\ \A k \in LifecycleKinds \ {kind} :
               ev'.sends[1].channel # lifecycleChannel(k)]_vars

\* C20 amended: an event of a window is forwarded as one message to that
\* window's content and to no other; a finished load has a channel to itself,
\* and an event that shares its channel with another kind (maximize with
\* unmaximize, blur with focus) carries its own name as the payload, so channel
\* and payload together tell the five kinds apart.
C20_OwnWindowDistinctMessage ==
  [][(ev'.op = "window-event" \/ (ev'.op = "load-settled" /\ ev'.sends # <<>>)) =>
       LET kind == IF ev'.op = "load-settled" THEN "did-finish-load" ELSE ev'.type
       IN /\ Len(ev'.sends) = 1
          /\ \A d \in Range(ev'.sends) : d.to = ev'.id
          /\ kind # "did-finish-load" => ev'.sends[1].value = kind
          /\ \A k \in LifecycleKinds \ {kind} :
               ev'.sends[1].channel = lifecycleChannel(k) =>
                 /\ kind # "did-finish-load" /\ k # "did-finish-load"
                 /\ ev'.sends[1].value # k]_vars

\* the second of three windows was maximized and is restored: its content, and
\* no other, gets "unmaximize" on the channel maximize was sent on
C20_Witness ==
  /\ ev.op = "window-event" /\ ev.type = "unmaximize" /\ ev.id = 2
  /\ Len(wins) = 3
  /\ ev.sends = <<Delivery(2, lifecycleChannel("maximize"), "unmaximize")>>

----------------------------------------------------------------------------
(* The lifecycle specification: start, second launches, closes, activation *)

\* the default configuration the application supplies at startup, or none
DefaultConfigs == {<<>>, <<PlainCustomize>>, <<HomeCustomize>>}

InitLifecycle == InitWith({"win32", "darwin"}, {WorkArea0}, DefaultConfigs)

NextLifecycle ==
  \/ \E o \in AppOptions, lock \in BOOLEAN : appBeforeOn(o, lock)
  \/ WindowNew(PlainCustomize, NoOptions, 2)
  \/ \E id \in 1..MaxId, cancelled \in BOOLEAN : Close(id, cancelled)
  \/ WindowFunc("close", Undefined, {})
  \/ SecondInstance("argv:second", 2)
  \/ Activate(2)

SpecLifecycle == InitLifecycle /\ [][NextLifecycle]_vars

\* C14: a process that did not get the single-instance lock is Terminating
\* from appBeforeOn on and never has a window: none is live and no id was
\* ever handed out, whatever events follow.
C14_NoLockNoWindow ==
  (appState # "Starting" /\ ~hasLock) =>
     /\ appState = "Terminating"
     /\ wins = <<>>
     /\ nextId = 1

\* the lock was not acquired on darwin, where activate could create a window
\* from the default configuration that was supplied: the process is Terminating
C14_Witness ==
  /\ appState = "Terminating" /\ ~hasLock
  /\ platform = "darwin"
  /\ defaultCustomize # <<>>
  /\ ev.op = "app-before-on"

\* the step closes the last live window
LastWindowCloses == Len(wins) > 0 /\ Len(wins') = 0

\* C15 as stated: when the last live window closes the process terminates,
\* except on darwin where it keeps running; there an activate event creates
\* exactly one window when none is live, and none otherwise.
C15_ActivateCreatesOne ==
  [][/\ LastWindowCloses =>
          appState' = IF platform = "darwin" THEN "Running" ELSE "Terminating"
     /\ ev'.op = "activate" =>
          IF Len(wins) = 0
          THEN Len(wins') = 1 /\ ev'.created = wins'[1].id
          ELSE wins' = wins /\ ev'.created = Null]_vars

\* C15 amended: as stated, where a default configuration was supplied at
\* startup; with none, an activate event with no live window fails in
\* create() and no window is created.
C15_ActivateNeedsDefault ==
  [][/\ LastWindowCloses =>
          appState' = IF platform = "darwin" THEN "Running" ELSE "Terminating"
     /\ ev'.op = "activate" =>
          /\ platform = "darwin"
          /\ IF Len(wins) = 0 /\ defaultCustomize # <<>>
             THEN /\ Len(wins') = 1 /\ ev'.created = wins'[1].id
                  /\ ~ev'.threw
             ELSE /\ wins' = wins /\ ev'.created = Null /\ nextId' = nextId
                  /\ ev'.threw = (Len(wins) = 0)]_vars

\* on darwin the last window was closed, the process kept running, and an
\* activate event has created one window, the second of this run
C15_Witness ==
  /\ ev.op = "activate" /\ platform = "darwin"
  /\ appState = "Running"
  /\ Len(wins) = 1 /\ wins[1].id = 2 /\ ev.created = 2

\* C17 as stated: in spawn-new mode with no default configuration supplied, a
\* second-instance event creates no window (the configuration error is fatal).
C17_AbsentDefaultNeverSpawns ==
  [][(SpawnStep /\ defaultCustomize = <<>>) =>
       /\ wins' = wins
       /\ ev'.created = Null]_vars

----------------------------------------------------------------------------
(* The window-open specification: content and webviews that open windows *)

\* destinations content asks to open
OpenUrls == {"https://example.org/a"}

InitOpen == InitWith({"win32"}, {WorkArea0}, {<<>>})

NextOpen ==
  \/ \E o \in FocusOptions, lock \in BOOLEAN : appBeforeOn(o, lock)
  \/ WindowNew(PlainCustomize, NoOptions, MaxId)
  \/ \E id \in TargetIds, cancelled \in BOOLEAN : Close(id, cancelled)
  \/ \E id \in 1..MaxId, v \in BOOLEAN, url \in OpenUrls : WindowOpen(id, v, url, MaxId)

SpecOpen == InitOpen /\ [][NextOpen]_vars

\* C16 as stated: an attempt by the content of a window, or by a webview
\* attached to it, to open a destination is denied and makes exactly one
\* creation request, whose url is the destination and whose parentId is the
\* id of the window the attempt was made in.
C16_OpenDeniedAndManaged ==
  [][ev'.op = "window-open" =>
       /\ ev'.result = <<"deny">>
       /\ Len(ev'.request) = 1
       /\ ev'.request[1].url = ev'.value
       /\ ev'.request[1].parentId = ev'.id
       /\ Len(wins') = Len(wins) + 1
       /\ wins'[Len(wins')].parent = ev'.id]_vars

----------------------------------------------------------------------------
(* The anchor specification: which window a new window is placed on *)

\* where the first window is put
AnchorSpots ==
  { BwOptions(2, 2, TRUE, x, -1) : x \in {-MaxCoord, 1} }

\* options of later windows: sizes given or not, and a position asked for
AnchoredOptions ==
  { BwOptions(0, 0, FALSE, 0, 0), BwOptions(MaxSide + 1, MaxSide, FALSE, 0, 0),
    BwOptions(2, 2, TRUE, 1, -1) }

\* configs of later windows: a live parent, a parent that is no window, none
AnchoredCustomizes == {ChildCustomize(1), ChildCustomize(MaxId + 1), PlainCustomize}

InitAnchor == InitWith({"win32"}, GeomWorkAreas, {<<>>})

NextAnchor ==
  \/ \E o \in FocusOptions, lock \in BOOLEAN : appBeforeOn(o, lock)
  \/ \E o \in AnchorSpots : WindowNew(MainCustomize, o, 1)
  \/ \E c \in AnchoredCustomizes, o \in AnchoredOptions : WindowNew(c, o, MaxId)
  \/ \E c \in AnchoredCustomizes, o \in AnchoredOptions : WindowNewInit(c, o, MaxId)
  \/ WindowMaxMinSize(1)

SpecAnchor == InitAnchor /\ [][NextAnchor]_vars

\* the position that centres a window of options o on the anchor a, with the
\* rounding of the code: on the work area when a is maximized, else on a
CentredOn(a, o) ==
  IF a.maximized
  THEN <<HalfBitOr0(workArea.width - Or(o.width, 0)),
         HalfBitOr0(workArea.height - Or(o.height, 0))>>
  ELSE <<HalfBitOr0(2 * a.x + (a.width - Or(o.width, a.width))),
         HalfBitOr0(2 * a.y + (a.height - Or(o.height, a.height)))>>

\* C19 as stated: a parentId that resolves to a live window makes that window
\* the anchor: it becomes the parent, its bounds and maximized state are
\* captured into the new config and the window is placed on it.  Otherwise
\* the older module places the window on getMain(); otherwise there is no
\* anchor and the caller's x and y reach the new window as given.
C19_AnchorResolution ==
  [][(ev'.op = "window-new" /\ ev'.created # Null) =>
       LET c == ev'.request[1]
           o == ev'.request[2]
           n == wins'[Len(wins')]
           p == IF c.parentId # Undefined THEN get(c.parentId) ELSE Null
       IN IF p # Null
          THEN /\ n.parent = wins[p].id
               /\ n.customize.currentWidth = getBounds(wins[p]).width
               /\ n.customize.currentHeight = getBounds(wins[p]).height
               /\ n.customize.currentMaximized = wins[p].maximized
               /\ <<n.x, n.y>> = CentredOn(wins[p], o)
          ELSE IF ev'.type = "browserWindowInit" /\ getMain # Null
          THEN /\ n.parent = Null
               /\ (o.width # 0 /\ o.height # 0 /\ ~wins[get(getMain)].maximized)
                    => <<n.x, n.y>> = CentredOn(wins[get(getMain)], o)
          ELSE /\ n.parent = Null
               /\ o.hasXY => (n.x = o.x /\ n.y = o.y)]_vars

----------------------------------------------------------------------------
(* getMain *)

\* positions of the live windows whose config flags isMainWin
Flagged == {i \in 1..Len(wins) : wins[i].customize.isMainWin}

\* the largest member of a non-empty set of numbers
Max(S) == CHOOSE m \in S : \A n \in S : n <= m

----------------------------------------------------------------------------
(* window-update and the main window *)

\* the step handles a window-update whose id is a live window
UpdateStep == ev'.op = "window-update" /\ get(ev'.id) # Null

\* the update replaces the config of the window named by the request, changes
\* nothing else of that window, and nothing of any other window
UpdateReplacesOne ==
  LET i == get(ev'.id)
  IN /\ Len(wins') = Len(wins)
     /\ \A j \in 1..Len(wins) :
          wins'[j] = IF j = i THEN [wins[j] EXCEPT !.customize = ev'.request[1]]
                     ELSE wins[j]
     /\ nextId' = nextId /\ focused' = focused

\* C18 as stated: window-update on a live id replaces that window's config
\* with the request and leaves every other window and the set of live
\* windows as they are; when the update flags isMainWin on a window B that
\* has an older live window A, getMain() then returns B.
C18_UpdatePromotes ==
  [][UpdateStep =>
       /\ UpdateReplacesOne
       /\ (ev'.request[1].isMainWin /\ get(ev'.id) > 1) => getMain' = ev'.id]_vars

\* C18 amended: the same, where getMain() returns B provided no live window
\* created after B is flagged isMainWin (otherwise it returns the most
\* recently created flagged window).
C18_UpdatePromotesUnlessNewerMain ==
  [][UpdateStep =>
       /\ UpdateReplacesOne
       /\ (ev'.request[1].isMainWin /\ get(ev'.id) > 1) =>
            getMain' = IF \E j \in Flagged : j > get(ev'.id)
                       THEN wins[Max(Flagged)].id
                       ELSE ev'.id]_vars

\* window 2 was flagged by an update while the older window 1, itself
\* flagged, is live: getMain() is window 2
C18_Witness ==
  /\ ev.op = "window-update" /\ ev.id = 2
  /\ Ids(wins) = {1, 2}
  /\ wins[1].customize.isMainWin
  /\ wins[2].customize.isMainWin
  /\ getMain = 2

\* C1: in every state reached by creations, closes and config updates,
\* getMain() is none when no window is live, else the most recently created
\* live window flagged isMainWin, else the most recently created live window.
C1_GetMainRule ==
  getMain = IF Len(wins) = 0 THEN Null
            ELSE IF Flagged # {} THEN wins[Max(Flagged)].id
            ELSE wins[Len(wins)].id

\* three live windows, two flagged after an update, the newest not flagged:
\* the main window is the newer flagged one, neither the newest nor the oldest
C1_Witness ==
  /\ Len(wins) = 3
  /\ Flagged = {1, 2}
  /\ ev.op = "window-update"
  /\ getMain = wins[2].id

====
